---- MODULE Spec2Model ----
(***************************************************************************)
(* Model of the Poof Python SDK (src/src/poof/__init__.py, exceptions.py): *)
(* one Client object, its transport handle, the caller-owned image         *)
(* storage, and the operations __init__, __enter__, __exit__, close,       *)
(* remove_background and me.  Every call is synchronous, so each call is   *)
(* one action; the server's response is an input of the action.            *)
(*                                                                         *)
(* Python values are tagged records: None is [none |-> TRUE], a str is     *)
(* [str |-> s], an int is [int |-> n], a bool is [bool |-> b].             *)
(***************************************************************************)
EXTENDS Integers, Sequences, FiniteSets, TLC

VARIABLES
  constructed,  \* a Poof object exists (__init__ returned)
  config,       \* its _api_key and _owns_client
  handle,       \* the transport handle: who created it, closed?, closes by the Client
  scope,        \* position of the caller's `with` block
  closeCalls,   \* number of close() calls made on the Client
  requests,     \* number of post/get calls made on the transport handle
  disk,         \* caller-owned files: path -> content
  buffer,       \* caller-owned bytes object
  stream,       \* caller-owned file-like object: content, read position, name
  last          \* what the last call did: inputs, request sent, outcome

vars == <<constructed, config, handle, scope, closeCalls, requests,
          disk, buffer, stream, last>>

storage == <<disk, buffer, stream>>

-----------------------------------------------------------------------------
(* Bounds *)

MaxLen == 1        \* longest byte string of an image
MaxRequests == 2   \* cap of the request counter
MaxCloses == 2     \* cap of the close() counter

-----------------------------------------------------------------------------
(* Python values *)

None == [none |-> TRUE]
PyStr(s) == [str |-> s]
PyInt(n) == [int |-> n]
PyBool(b) == [bool |-> b]

IsNone(v) == v = None

\* Python truthiness of None / str values (`x or y`, `if x`)
Truthy(v) == IF "str" \in DOMAIN v THEN v.str # "" ELSE ~IsNone(v)

Byte == {0, 1}
Bytes == UNION {[1..n -> Byte] : n \in 0..MaxLen}

-----------------------------------------------------------------------------
(* Error kinds: exceptions.py *)

PoofError == "PoofError"
AuthError == "AuthError"
PaymentRequiredError == "PaymentRequiredError"
PermissionDeniedError == "PermissionDeniedError"
RateLimitError == "RateLimitError"
ValidationError == "ValidationError"
ServerError == "ServerError"

ApiErrorKinds == {PoofError, AuthError, PaymentRequiredError,
                  PermissionDeniedError, RateLimitError, ValidationError,
                  ServerError}

\* PoofError.__init__: the five attributes are stored as given
MakeError(kind, message, code, details, request_id, status_code) ==
  [kind |-> kind, message |-> message, code |-> code, details |-> details,
   request_id |-> request_id, status_code |-> status_code]

\* an exception that is not a PoofError (ValueError, FileNotFoundError, ...)
PyError(kind) == [kind |-> kind]

NoRaise == [noraise |-> TRUE]

-----------------------------------------------------------------------------
(* httpx.Response as the Client reads it *)

\* dict.get(key) / dict.get(key, default) on a JSON object, a function from
\* the keys present to their values
DictGet(d, key, default) == IF key \in DOMAIN d THEN d[key] ELSE default

\* Headers.get(name): None when the header is absent
HeaderGet(response, name) == DictGet(response.headers, name, None)

\* response.json(): the decoded value, or a raised decode error
ResponseJson(response) ==
  CASE response.body.kind = "json_object" ->
         [raised |-> FALSE, isdict |-> TRUE, value |-> response.body.fields]
    [] response.body.kind = "json_other" ->
         [raised |-> FALSE, isdict |-> FALSE, value |-> response.body.text]
    [] OTHER -> [raised |-> TRUE]

\* response.text: the raw body text
ResponseText(response) == response.body.text

\* variant of ErrorKind: the chain without its final else branch
ErrorKindDropDefault(status) ==
  CASE status = 401 -> AuthError
    [] status = 402 -> PaymentRequiredError
    [] status = 403 -> PermissionDeniedError
    [] status = 429 -> RateLimitError
    [] status = 400 -> ValidationError
    [] status >= 500 -> ServerError
    [] OTHER -> "none"

\* _handle_error, the first-match chain of lines 206-219
ErrorKind(status) ==
  CASE status = 401 -> AuthError
    [] status = 402 -> PaymentRequiredError
    [] status = 403 -> PermissionDeniedError
    [] status = 429 -> RateLimitError
    [] status = 400 -> ValidationError
    [] status >= 500 -> ServerError
    [] OTHER -> PoofError

\* variant of ErrorFieldsParsed: request_id falls back to the X-Request-ID header
ErrorFieldsHeaderId(response) ==
  LET j == ResponseJson(response) IN
  IF j.raised \/ ~j.isdict THEN [raised |-> TRUE]
  ELSE [raised |-> FALSE,
        code |-> DictGet(j.value, "code", PyStr("unknown_error")),
        message |-> DictGet(j.value, "message", PyStr("Unknown error")),
        details |-> DictGet(j.value, "details", None),
        request_id |-> DictGet(j.value, "request_id",
                               HeaderGet(response, "X-Request-ID"))]

\* _handle_error, the try block of lines 186-191: it completes only when
\* json() returns and the value has a .get (a dict)
ErrorFieldsParsed(response) ==
  LET j == ResponseJson(response) IN
  IF j.raised \/ ~j.isdict THEN [raised |-> TRUE]
  ELSE [raised |-> FALSE,
        code |-> DictGet(j.value, "code", PyStr("unknown_error")),
        message |-> DictGet(j.value, "message", PyStr("Unknown error")),
        details |-> DictGet(j.value, "details", None),
        request_id |-> DictGet(j.value, "request_id", None)]

\* variant of ErrorFieldsFallback: the message is the body text even when empty
ErrorFieldsFallbackRawOnly(response) ==
  [raised |-> FALSE,
   code |-> PyStr("unknown_error"),
   message |-> PyStr(ResponseText(response)),
   details |-> None,
   request_id |-> HeaderGet(response, "X-Request-ID")]

\* _handle_error, the except block of lines 192-196
ErrorFieldsFallback(response) ==
  [raised |-> FALSE,
   code |-> PyStr("unknown_error"),
   message |-> IF ResponseText(response) # ""
               THEN PyStr(ResponseText(response))
               ELSE PyStr("HTTP " \o ToString(response.status)),
   details |-> None,
   request_id |-> HeaderGet(response, "X-Request-ID")]

\* _handle_error: the exception it raises, or NoRaise when the chain of
\* conditionals is left without a raise
HandleError(response) ==
  LET p == ErrorFieldsParsed(response)
      f == IF p.raised THEN ErrorFieldsFallback(response) ELSE p
      kind == ErrorKind(response.status)
  IN IF kind \in ApiErrorKinds
     THEN MakeError(kind, f.message, f.code, f.details, f.request_id,
                    PyInt(response.status))
     ELSE NoRaise

-----------------------------------------------------------------------------
(* _prepare_image: lines 221-255 *)

\* one path component or file name, as its stem and its extension
F(stem, ext) == [stem |-> stem, ext |-> ext]

\* an entry of the disk: a regular file with its content, or nothing
File(content) == [content |-> content]
NoFile == [nofile |-> TRUE]

\* Path(x).name: the final component
PathName(path) == path[Len(path)]

\* Path.exists()
PathExists(d, path) == path \in DOMAIN d /\ d[path] # NoFile

\* mimetypes.guess_type(filename)[0]: the type of the extension, or None
GuessType(filename) ==
  CASE filename.ext \in {"png", "PNG"} -> PyStr("image/png")
    [] filename.ext \in {"jpg", "jpeg"} -> PyStr("image/jpeg")
    [] filename.ext = "webp" -> PyStr("image/webp")
    [] OTHER -> None

\* variant of ContentTypeOf: no fallback to the generic binary type
ContentTypeOfNoFallback(filename) == GuessType(filename)

\* `guess_type(filename)[0] or "application/octet-stream"`
ContentTypeOf(filename) ==
  IF Truthy(GuessType(filename)) THEN GuessType(filename)
  ELSE PyStr("application/octet-stream")

\* image.read(): the bytes from the read position to the end
StreamRead(s) == SubSeq(s.content, s.pos + 1, Len(s.content))

\* the stream after image.read(): the read position is at the end
StreamAfterRead(s) == [s EXCEPT !.pos = Len(s.content)]

\* lines 243-247: getattr(image, "name", "image"), kept when it is a str or
\* a Path (its final component), "image" otherwise
StreamFilename(s) ==
  IF s.name.kind = "path" THEN PathName(s.name.path) ELSE F("image", "")

\* variant of PrepareBytes: the content type defaults to image/png
PrepareBytesPngDefault(b) ==
  [raised |-> FALSE, filename |-> F("image", ""), data |-> b,
   content_type |-> PyStr("image/png")]

\* the bytes variant, lines 236-239
PrepareBytes(b) ==
  [raised |-> FALSE, filename |-> F("image", ""), data |-> b,
   content_type |-> PyStr("application/octet-stream")]

\* variant of PrepareImage: no exists() test and no TypeError branch
PrepareImageNoExistsCheck(image, d, b, s) ==
  CASE image.kind = "path" ->
         [raised |-> FALSE, filename |-> PathName(image.path),
          data |-> IF PathExists(d, image.path) THEN d[image.path].content
                   ELSE <<>>,
          content_type |-> ContentTypeOf(PathName(image.path))]
    [] image.kind = "bytes" -> PrepareBytes(b)
    [] image.kind = "stream" ->
         [raised |-> FALSE, filename |-> StreamFilename(s),
          data |-> StreamRead(s),
          content_type |-> ContentTypeOf(StreamFilename(s))]
    [] OTHER -> [raised |-> FALSE, filename |-> F("image", ""), data |-> <<>>,
                 content_type |-> PyStr("application/octet-stream")]

\* _prepare_image: the (filename, data, content_type) triple or the raised
\* exception, from the image argument and the caller's storage
PrepareImage(image, d, b, s) ==
  CASE image.kind = "path" ->
         IF ~PathExists(d, image.path)
         THEN [raised |-> TRUE, error |-> PyError("FileNotFoundError")]
         ELSE [raised |-> FALSE, filename |-> PathName(image.path),
               data |-> d[image.path].content,
               content_type |-> ContentTypeOf(PathName(image.path))]
    [] image.kind = "bytes" -> PrepareBytes(b)
    [] image.kind = "stream" ->
         [raised |-> FALSE, filename |-> StreamFilename(s),
          data |-> StreamRead(s),
          content_type |-> ContentTypeOf(StreamFilename(s))]
    [] OTHER -> [raised |-> TRUE, error |-> PyError("TypeError")]

\* the caller's stream after _prepare_image(image)
StreamAfterPrepare(image, s) ==
  IF image.kind = "stream" THEN StreamAfterRead(s) ELSE s

-----------------------------------------------------------------------------
(* remove_background: request construction, lines 299-319 *)

OptionNames == {"format", "channels", "bg_color", "size", "crop"}

\* str(crop): "True" / "False"
StrOfBool(b) == IF b THEN "True" ELSE "False"

\* str.lower() on the two strings str(bool) gives
Lower(s) == CASE s = "True" -> "true" [] s = "False" -> "false" [] OTHER -> s

\* variant of FormValue: str(crop) without lower()
FormValueNoLower(name, v) ==
  IF name = "crop" THEN StrOfBool(v.bool) ELSE v.str

\* the value stored in form_data for a set option
FormValue(name, v) ==
  IF name = "crop" THEN Lower(StrOfBool(v.bool)) ELSE v.str

\* form_data after lines 301-312: one entry per option that is not None
FormData(options) ==
  [n \in {m \in OptionNames : ~IsNone(options[m])} |->
     FormValue(n, options[n])]

\* the arguments of self._client.post, lines 314-319
PostRequest(prepared, options, api_key) ==
  [method |-> "POST", endpoint |-> "/remove",
   headers |-> [f \in {"x-api-key", "User-Agent"} |->
                  IF f = "x-api-key" THEN api_key ELSE "poof-python/0.1.0"],
   files |-> [f \in {"image_file"} |->
                [filename |-> prepared.filename, data |-> prepared.data,
                 content_type |-> prepared.content_type]],
   data |-> IF DOMAIN FormData(options) # {}
            THEN [form |-> FormData(options)] ELSE None]

\* the arguments of self._client.get, lines 356-359
GetRequest(api_key) ==
  [method |-> "GET", endpoint |-> "/me",
   headers |-> [f \in {"x-api-key", "User-Agent"} |->
                  IF f = "x-api-key" THEN api_key ELSE "poof-python/0.1.0"]]

-----------------------------------------------------------------------------
(* remove_background: the result, lines 324-337 *)

Digits == {"0", "1", "2", "3", "4", "5", "6", "7", "8", "9"}

DigitValue(c) ==
  CASE c = "0" -> 0 [] c = "1" -> 1 [] c = "2" -> 2 [] c = "3" -> 3
    [] c = "4" -> 4 [] c = "5" -> 5 [] c = "6" -> 6 [] c = "7" -> 7
    [] c = "8" -> 8 [] c = "9" -> 9

RECURSIVE DecimalValue(_)
DecimalValue(cs) ==
  IF cs = <<>> THEN 0
  ELSE 10 * DecimalValue(SubSeq(cs, 1, Len(cs) - 1)) + DigitValue(cs[Len(cs)])

RECURSIVE StripSpaces(_)
StripSpaces(cs) ==
  IF cs # <<>> /\ Head(cs) = " " THEN StripSpaces(Tail(cs))
  ELSE IF cs # <<>> /\ cs[Len(cs)] = " "
       THEN StripSpaces(SubSeq(cs, 1, Len(cs) - 1))
       ELSE cs

\* int(s) on a str given as its characters: surrounding blanks, an optional
\* sign, then decimal digits; anything else raises ValueError
IntOfStr(cs) ==
  LET t == StripSpaces(cs)
      signed == t # <<>> /\ Head(t) \in {"+", "-"}
      ds == IF signed THEN Tail(t) ELSE t
  IN IF ds # <<>> /\ \A i \in 1..Len(ds) : ds[i] \in Digits
     THEN [raised |-> FALSE,
           value |-> IF signed /\ Head(t) = "-" THEN 0 - DecimalValue(ds)
                     ELSE DecimalValue(ds)]
     ELSE [raised |-> TRUE]

\* `int(h) if h else None` for a header value h (None when absent)
MetaInt(h) ==
  IF IsNone(h) \/ h.chars = <<>> THEN [raised |-> FALSE, value |-> None]
  ELSE IF IntOfStr(h.chars).raised THEN [raised |-> TRUE]
       ELSE [raised |-> FALSE, value |-> PyInt(IntOfStr(h.chars).value)]

\* RemoveBackgroundResult(...) of lines 330-337, or the ValueError of int()
BuildResult(response) ==
  LET t == MetaInt(HeaderGet(response, "X-Processing-Time-Ms"))
      w == MetaInt(HeaderGet(response, "X-Image-Width"))
      h == MetaInt(HeaderGet(response, "X-Image-Height"))
  IN IF t.raised \/ w.raised \/ h.raised
     THEN [raised |-> TRUE, error |-> PyError("ValueError")]
     ELSE [raised |-> FALSE,
           value |-> [data |-> response.body.content,
                      content_type |-> HeaderGet(response, "Content-Type"),
                      request_id |-> HeaderGet(response, "X-Request-ID"),
                      processing_time_ms |-> t.value,
                      width |-> w.value,
                      height |-> h.value]]

\* lines 321-337: what remove_background does with the response
RemoveOutcome(response) ==
  IF response.status # 200 /\ HandleError(response) # NoRaise
  THEN [raised |-> TRUE, error |-> HandleError(response)]
  ELSE BuildResult(response)

\* lines 361-364: what me does with the response
MeOutcome(response) ==
  IF response.status # 200 /\ HandleError(response) # NoRaise
  THEN [raised |-> TRUE, error |-> HandleError(response)]
  ELSE IF ResponseJson(response).raised
       THEN [raised |-> TRUE, error |-> PyError("JSONDecodeError")]
       ELSE [raised |-> FALSE, value |-> ResponseJson(response).value]

-----------------------------------------------------------------------------
(* The Client: __init__, __enter__, __exit__, close; lines 149-175 *)

NoHandle == [origin |-> "none", closed |-> FALSE, clientCloses |-> 0]

\* __init__: the exception it raises, or the _owns_client flag and the
\* transport handle it keeps.  supplied is the httpx_client argument: "none"
\* (None), "open" or "closed" (a handle of the caller's, in that state)
InitOutcome(api_key, supplied) ==
  IF api_key = ""
  THEN [raised |-> TRUE, error |-> PyError("ValueError"), handle |-> NoHandle]
  ELSE [raised |-> FALSE,
        owns_client |-> (supplied = "none"),
        handle |-> IF supplied # "none"
                   THEN [origin |-> "caller", closed |-> (supplied = "closed"),
                         clientCloses |-> 0]
                   ELSE [origin |-> "client", closed |-> FALSE,
                         clientCloses |-> 0]]

\* variant of CloseEffect: closes the handle whoever owns it
CloseEffectAlways(owns_client, h) ==
  [h EXCEPT !.closed = TRUE, !.clientCloses = @ + 1]

\* close(): the handle afterwards
CloseEffect(owns_client, h) ==
  IF owns_client
  THEN [h EXCEPT !.closed = TRUE, !.clientCloses = @ + 1]
  ELSE h

\* variant of Dispatch: a second request after a 5xx response
DispatchRetry(h, t) ==
  IF h.closed
  THEN [nreq |-> 1, answer |-> [kind |-> "failure", error |-> PyError("RuntimeError")]]
  ELSE [nreq |-> IF t.kind = "response" /\ t.response.status >= 500
                 THEN 2 ELSE 1,
        answer |-> t]

\* self._client.post / .get: one call on the handle.  A closed handle
\* refuses the call; an open one gives the transport's answer t, a response
\* or a transport failure
Dispatch(h, t) ==
  IF h.closed
  THEN [nreq |-> 1, answer |-> [kind |-> "failure", error |-> PyError("RuntimeError")]]
  ELSE [nreq |-> 1, answer |-> t]

NoCall == [op |-> "none"]

Init0 ==
  /\ constructed = FALSE
  /\ config = [api_key |-> "", owns_client |-> FALSE]
  /\ handle = NoHandle
  /\ scope = "outside"
  /\ closeCalls = 0
  /\ requests = 0
  /\ last = NoCall

Construct(api_key, supplied) ==
  /\ ~constructed
  /\ LET out == InitOutcome(api_key, supplied) IN
       /\ constructed' = ~out.raised
       /\ config' = IF out.raised THEN config
                    ELSE [api_key |-> api_key, owns_client |-> out.owns_client]
       /\ handle' = out.handle
       /\ last' = [op |-> "init", api_key |-> api_key, supplied |-> supplied,
                   nreq |-> 0, raised |-> out.raised,
                   error |-> IF out.raised THEN out.error ELSE None]
  /\ UNCHANGED <<scope, closeCalls, requests, storage>>

Enter ==
  /\ constructed
  /\ scope = "outside"
  /\ scope' = "inside"
  /\ last' = [op |-> "enter", nreq |-> 0, raised |-> FALSE]
  /\ UNCHANGED <<constructed, config, handle, closeCalls, requests, storage>>

\* __exit__(*args): close(), whether or not the block raised
Exit(with_exception) ==
  /\ constructed
  /\ scope = "inside"
  /\ scope' = "exited"
  /\ handle' = CloseEffect(config.owns_client, handle)
  /\ closeCalls' = closeCalls + 1
  /\ last' = [op |-> "exit", with_exception |-> with_exception, nreq |-> 0,
              raised |-> FALSE]
  /\ UNCHANGED <<constructed, config, requests, storage>>

Close ==
  /\ constructed
  /\ closeCalls < MaxCloses
  /\ handle' = CloseEffect(config.owns_client, handle)
  /\ closeCalls' = closeCalls + 1
  /\ last' = [op |-> "close", nreq |-> 0, raised |-> FALSE]
  /\ UNCHANGED <<constructed, config, scope, requests, storage>>

\* the caller closes the handle it supplied
CallerClosesHandle ==
  /\ handle.origin = "caller"
  /\ ~handle.closed
  /\ handle' = [handle EXCEPT !.closed = TRUE]
  /\ last' = [op |-> "caller_close", nreq |-> 0, raised |-> FALSE]
  /\ UNCHANGED <<constructed, config, scope, closeCalls, requests, storage>>

\* remove_background(image, **options) with the transport answering t
RemoveBackground(image, options, t) ==
  /\ constructed
  /\ requests < MaxRequests
  /\ LET prepared == PrepareImage(image, disk, buffer, stream) IN
       IF prepared.raised
       THEN /\ last' = [op |-> "remove_background", image |-> image,
                        options |-> options, resolved |-> FALSE, nreq |-> 0,
                        request |-> None, answer |-> None,
                        raised |-> TRUE, error |-> prepared.error,
                        value |-> None]
            /\ UNCHANGED <<requests, stream>>
       ELSE LET d == Dispatch(handle, t)
                out == IF d.answer.kind = "response"
                       THEN RemoveOutcome(d.answer.response)
                       ELSE [raised |-> TRUE, error |-> d.answer.error]
            IN /\ last' = [op |-> "remove_background", image |-> image,
                           options |-> options, resolved |-> TRUE,
                           nreq |-> d.nreq,
                           request |-> PostRequest(prepared, options,
                                                   config.api_key),
                           answer |-> d.answer,
                           raised |-> out.raised,
                           error |-> IF out.raised THEN out.error ELSE None,
                           value |-> IF out.raised THEN None ELSE out.value]
               /\ requests' = requests + d.nreq
               /\ stream' = StreamAfterPrepare(image, stream)
  /\ UNCHANGED <<constructed, config, handle, scope, closeCalls, disk, buffer>>

\* me() with the transport answering t
Me(t) ==
  /\ constructed
  /\ requests < MaxRequests
  /\ LET d == Dispatch(handle, t)
         out == IF d.answer.kind = "response"
                THEN MeOutcome(d.answer.response)
                ELSE [raised |-> TRUE, error |-> d.answer.error]
     IN /\ last' = [op |-> "me", resolved |-> TRUE, nreq |-> d.nreq,
                    request |-> GetRequest(config.api_key),
                    answer |-> d.answer,
                    raised |-> out.raised,
                    error |-> IF out.raised THEN out.error ELSE None,
                    value |-> IF out.raised THEN None ELSE out.value]
        /\ requests' = requests + d.nreq
  /\ UNCHANGED <<constructed, config, handle, scope, closeCalls, storage>>

-----------------------------------------------------------------------------
(* Inputs: what the caller passes and what the server answers *)

CatPath == <<F("photos", ""), F("cat", "png")>>
ImagePath == <<F("image", "")>>
ScanPath == <<F("tmp", ""), F("scan", "dat")>>
MissingPath == <<F("missing", "jpg")>>

Paths == {CatPath, ImagePath, ScanPath, MissingPath}

DiskInit ==
  [p \in Paths |->
     CASE p = CatPath -> File(<<1>>)
       [] p = ImagePath -> File(<<1>>)
       [] p = ScanPath -> File(<<0>>)
       [] OTHER -> NoFile]

\* the name attribute of a stream: absent, a str or Path, or an int (a file
\* opened from a descriptor)
StreamNames ==
  {[kind |-> "absent"], [kind |-> "int"],
   [kind |-> "path", path |-> <<F("uploads", ""), F("cat", "png")>>],
   [kind |-> "path", path |-> <<F("raw", "dat")>>]}

BytesImage == [kind |-> "bytes"]
StreamImage == [kind |-> "stream"]
OtherImage == [kind |-> "other"]    \* e.g. an int: not a path, bytes or reader
PathImage(p) == [kind |-> "path", path |-> p]

AllImages == {BytesImage, StreamImage, OtherImage} \cup {PathImage(p) : p \in Paths}

NoOptions == [n \in OptionNames |-> None]

AllOptions ==
  {[n \in OptionNames |->
      CASE n = "format" -> f [] n = "channels" -> c [] n = "bg_color" -> b
        [] n = "size" -> z [] OTHER -> k] :
     f \in {None, PyStr("png"), PyStr("webp")},
     c \in {None, PyStr("rgb")},
     b \in {None, PyStr("#ffffff"), PyStr("")},
     z \in {None, PyStr("preview")},
     k \in {None, PyBool(TRUE), PyBool(FALSE)}}

Absent == [absent |-> TRUE]

\* a mapping of the entries that are present
Present(m) == [k \in {j \in DOMAIN m : m[j] # Absent} |-> m[k]]

Response(status, body, headers) ==
  [status |-> status, body |-> body, headers |-> headers]

Answer(response) == [kind |-> "response", response |-> response]

\* a timeout or a connection failure, raised by the transport
TransportFailure == [kind |-> "failure", error |-> PyError("TransportError")]

Statuses ==
  {100, 201, 204, 302, 400, 401, 402, 403, 404, 422, 429, 499, 500, 502, 503, 599}

JsonObject(fields) ==
  [kind |-> "json_object", text |-> "{...}", content |-> <<0>>,
   fields |-> fields]

\* well-formed JSON error objects: every key optional, details and
\* request_id possibly null
ErrorObjects ==
  {JsonObject(Present([code |-> c, message |-> m, details |-> d,
                       request_id |-> r])) :
     c \in {Absent, PyStr("invalid_image")},
     m \in {Absent, PyStr("Image too large")},
     d \in {Absent, None, PyStr("Use a smaller file")},
     r \in {Absent, None, PyStr("req_body")}}

\* bodies that are no JSON object: plain text, empty, JSON of another type
UnparseableBodies ==
  {[kind |-> "text", text |-> "Bad Gateway", content |-> <<0>>],
   [kind |-> "text", text |-> "", content |-> <<>>],
   [kind |-> "json_other", text |-> "[1, 2]", content |-> <<0>>],
   [kind |-> "json_other", text |-> "null", content |-> <<0>>]}

RequestIdHeaders ==
  {Present([n \in {"X-Request-ID"} |-> r]) : r \in {Absent, PyStr("req_hdr")}}

ErrorResponses ==
  {Response(st, b, h) : st \in Statuses,
                        b \in ErrorObjects \cup UnparseableBodies,
                        h \in RequestIdHeaders}

\* values of the numeric headers, as characters
NumericHeaderValues ==
  {[chars |-> <<>>], [chars |-> <<"1", "2", "0">>],
   [chars |-> <<"8", "0", "0">>], [chars |-> <<" ", "6", "0", "0">>],
   [chars |-> <<"a", "b", "c">>], [chars |-> <<"1", "2", ".", "5">>]}

ImageBody == [kind |-> "binary", text |-> "<image>", content |-> <<1, 1>>]

OkHeaders ==
  {Present([n \in {"X-Processing-Time-Ms", "X-Image-Width", "X-Image-Height",
                   "Content-Type", "X-Request-ID"} |->
              CASE n = "X-Processing-Time-Ms" -> t
                [] n = "X-Image-Width" -> w
                [] n = "X-Image-Height" -> h
                [] n = "Content-Type" -> c
                [] OTHER -> r]) :
     t \in {Absent} \cup NumericHeaderValues,
     w \in {Absent} \cup NumericHeaderValues,
     h \in {Absent} \cup NumericHeaderValues,
     c \in {Absent, PyStr("image/png")},
     r \in {Absent, PyStr("req_hdr")}}

OkImageResponses == {Response(200, ImageBody, h) : h \in OkHeaders}

\* the documented success response of /remove
OkImage ==
  Response(200, ImageBody,
           [n \in {"X-Processing-Time-Ms", "X-Image-Width", "X-Image-Height",
                   "Content-Type", "X-Request-ID"} |->
              CASE n = "X-Processing-Time-Ms" -> [chars |-> <<"1", "2", "0">>]
                [] n = "X-Image-Width" -> [chars |-> <<"8", "0", "0">>]
                [] n = "X-Image-Height" -> [chars |-> <<"6", "0", "0">>]
                [] n = "Content-Type" -> PyStr("image/png")
                [] OTHER -> PyStr("req_hdr")])

\* the success response of /me
OkAccount ==
  Response(200,
           JsonObject([organizationId |-> PyStr("org_1"), plan |-> PyStr("pro"),
                       maxCredits |-> PyInt(100), usedCredits |-> PyInt(7)]),
           [n \in {"Content-Type"} |-> PyStr("application/json")])

\* one error response per status, with a JSON error body
StatusResponses ==
  {Response(st,
            JsonObject([code |-> PyStr("error"), message |-> PyStr("failed")]),
            [n \in {} |-> None]) : st \in {201, 400, 401, 404, 429, 500, 503}}

LifeImages == {BytesImage, StreamImage, OtherImage, PathImage(CatPath),
               PathImage(MissingPath)}

-----------------------------------------------------------------------------
(* Specifications *)

FixedStorage ==
  /\ disk = DiskInit
  /\ buffer = <<1, 0>>
  /\ stream = [content |-> <<1, 0>>, pos |-> 0, name |-> [kind |-> "absent"]]

\* a Client constructed with a non-empty key, with its own handle or with
\* an open handle of the caller's
Ready ==
  /\ constructed = TRUE
  /\ \E supplied \in {"none", "open"} :
       /\ config = [api_key |-> "key",
                    owns_client |-> InitOutcome("key", supplied).owns_client]
       /\ handle = InitOutcome("key", supplied).handle
  /\ scope = "outside"
  /\ closeCalls = 0
  /\ requests = 0
  /\ last = NoCall

\* the whole life of one Client
Init == Init0 /\ FixedStorage

Next ==
  \/ \E k \in {"", "key"}, supplied \in {"none", "open", "closed"} :
       Construct(k, supplied)
  \/ Enter
  \/ \E e \in BOOLEAN : Exit(e)
  \/ Close
  \/ CallerClosesHandle
  \/ \E i \in LifeImages,
        t \in {Answer(OkImage), TransportFailure}
              \cup {Answer(r) : r \in StatusResponses} :
       RemoveBackground(i, NoOptions, t)
  \/ \E t \in {Answer(OkAccount), TransportFailure}
              \cup {Answer(r) : r \in StatusResponses} :
       Me(t)

Spec == Init /\ [][Next]_vars

\* The outcome of a call is a function of its arguments and of the response
\* alone, so the specifications that range over large input sets make one
\* call from each initial state.
FirstCall == requests = 0

\* error responses of every status and body shape
InitApi == Ready /\ FixedStorage

NextApi ==
  \/ FirstCall /\ \E r \in ErrorResponses :
                     RemoveBackground(BytesImage, NoOptions, Answer(r))
  \/ FirstCall /\ \E r \in ErrorResponses : Me(Answer(r))

SpecApi == InitApi /\ [][NextApi]_vars

\* success responses with every combination of metadata headers
NextResult ==
  \/ FirstCall /\ \E r \in OkImageResponses :
                     RemoveBackground(BytesImage, NoOptions, Answer(r))
  \/ FirstCall /\ Me(Answer(OkAccount))

SpecResult == InitApi /\ [][NextResult]_vars

\* every combination of options
NextForm ==
  \/ FirstCall /\ \E i \in {BytesImage, PathImage(CatPath)}, o \in AllOptions,
                     r \in {OkImage} \cup {x \in StatusResponses : x.status = 400} :
                    RemoveBackground(i, o, Answer(r))
  \/ FirstCall /\ Me(Answer(OkAccount))

SpecForm == InitApi /\ [][NextForm]_vars

\* every image input over every content of the caller's buffer and stream
InitImage ==
  /\ Ready
  /\ config.owns_client
  /\ disk = DiskInit
  /\ buffer \in Bytes
  /\ \E c \in Bytes, n \in StreamNames :
       \E p \in 0..Len(c) : stream = [content |-> c, pos |-> p, name |-> n]

NextImage ==
  \/ \E i \in AllImages : RemoveBackground(i, NoOptions, Answer(OkImage))
  \/ Me(Answer(OkAccount))

SpecImage == InitImage /\ [][NextImage]_vars

-----------------------------------------------------------------------------
(* Properties *)

LastIsCall == last.op \in {"remove_background", "me"}

\* the last call received an HTTP response
GotResponse == LastIsCall /\ last.resolved /\ last.answer.kind = "response"

LastStatus == last.answer.response.status
LastBody == last.answer.response.body
LastHeaders == last.answer.response.headers

\* the table of section 4.2 of the specification
TableKind(status) ==
  IF status = 401 THEN "AuthError"
  ELSE IF status = 402 THEN "PaymentRequiredError"
  ELSE IF status = 403 THEN "PermissionDeniedError"
  ELSE IF status = 429 THEN "RateLimitError"
  ELSE IF status = 400 THEN "ValidationError"
  ELSE IF status >= 500 THEN "ServerError"
  ELSE "PoofError"

\* C1: every non-200 status makes the call raise exactly the error kind of
\* the table: 401 AuthError, 402 PaymentRequiredError, 403
\* PermissionDeniedError, 429 RateLimitError, 400 ValidationError, >= 500
\* ServerError, every other status the generic PoofError; none falls
\* through without raising.
C1_StatusTable ==
  (GotResponse /\ LastStatus # 200) =>
     /\ last.raised
     /\ last.error.kind \in ApiErrorKinds
     /\ last.error.kind = TableKind(LastStatus)

C1_Witness ==
  /\ GotResponse
  /\ LastStatus = 404
  /\ last.raised
  /\ last.error.kind = "PoofError"

\* C2: a handle supplied by the caller is never closed by the Client; a
\* handle the Client created is closed once the scope has been exited or
\* close() has been called; the ownership flag is the one fixed at
\* construction.
C2_HandleOwnership ==
  /\ handle.origin = "caller" => handle.clientCloses = 0
  /\ (handle.origin = "client" /\ (scope = "exited" \/ closeCalls > 0))
       => handle.closed
  /\ constructed => (config.owns_client <=> handle.origin = "client")
  /\ ~constructed => handle.origin = "none"

C2_Witness ==
  /\ handle.origin = "caller"
  /\ scope = "exited"
  /\ closeCalls >= 2
  /\ ~handle.closed
  /\ handle.clientCloses = 0
  /\ last.op = "remove_background" /\ last.resolved /\ ~last.raised

\* C3: a call that gets past input resolution makes exactly one request on
\* the handle; it returns a value only when the response status is 200 and
\* raises a typed API error for every other status.
C3_OneRequestPerCall ==
  (LastIsCall /\ last.resolved) =>
     /\ last.nreq = 1
     /\ ~last.raised => (last.answer.kind = "response" /\ LastStatus = 200)
     /\ (last.answer.kind = "response" /\ LastStatus # 200) =>
          (last.raised /\ last.error.kind \in ApiErrorKinds)

C3_Witness ==
  /\ last.op = "remove_background"
  /\ last.resolved
  /\ last.answer.kind = "response"
  /\ LastStatus = 503
  /\ last.raised
  /\ last.error.kind = "ServerError"
  /\ last.nreq = 1
  /\ requests = 2

\* C4: an empty credential makes construction raise with no transport
\* handle created; a path that does not exist raises a not-found error and
\* an input that is no path, bytes or reader raises a type error, both with
\* no request made on the handle.
C4_FailBeforeTransport ==
  /\ (last.op = "init" /\ last.api_key = "") =>
       (last.raised /\ last.error.kind = "ValueError" /\ ~constructed
        /\ handle.origin # "client")
  /\ (last.op = "remove_background" /\ last.image.kind = "path"
      /\ ~PathExists(disk, last.image.path)) =>
       (last.raised /\ last.error.kind = "FileNotFoundError"
        /\ last.nreq = 0 /\ last.request = None)
  /\ (last.op = "remove_background" /\ last.image.kind = "other") =>
       (last.raised /\ last.error.kind = "TypeError"
        /\ last.nreq = 0 /\ last.request = None)

C4_Witness ==
  /\ last.op = "remove_background"
  /\ last.image = PathImage(MissingPath)
  /\ last.raised
  /\ last.error.kind = "FileNotFoundError"
  /\ last.nreq = 0
  /\ requests = 1

\* the result field of a numeric header under claim C5: null when the
\* header is missing or not numeric, its value otherwise
C5Field(name) ==
  IF name \notin DOMAIN LastHeaders THEN None
  ELSE IF IntOfStr(LastHeaders[name].chars).raised THEN None
  ELSE PyInt(IntOfStr(LastHeaders[name].chars).value)

\* C5: on a 200 response to remove_background a missing or non-numeric
\* X-Processing-Time-Ms, X-Image-Width or X-Image-Height gives null for
\* that field, never a raised error; the other fields keep their parsed
\* values and the result has the body bytes.
C5_MetadataNeverRaises ==
  (last.op = "remove_background" /\ GotResponse /\ LastStatus = 200) =>
     /\ ~last.raised
     /\ last.value.data = LastBody.content
     /\ last.value.processing_time_ms = C5Field("X-Processing-Time-Ms")
     /\ last.value.width = C5Field("X-Image-Width")
     /\ last.value.height = C5Field("X-Image-Height")

\* the error field of a key of the JSON error object under claim C6: the
\* value of the key in the body, null when the body has no such key
C6BodyField(key) ==
  IF key \in DOMAIN LastBody.fields THEN LastBody.fields[key] ELSE None

IsErrorObject == GotResponse /\ LastStatus # 200 /\ LastBody.kind = "json_object"

\* C6 as claimed: with a JSON error object as body, the error's message,
\* code, details and request_id equal the input JSON exactly, no field
\* taking a value that is not in the body, and status_code is the status.
C6_FieldsEqualBody ==
  IsErrorObject =>
     /\ last.raised
     /\ last.error.message = C6BodyField("message")
     /\ last.error.code = C6BodyField("code")
     /\ last.error.details = C6BodyField("details")
     /\ last.error.request_id = C6BodyField("request_id")
     /\ last.error.status_code = PyInt(LastStatus)

\* C6 as amended: a key present in the body gives that value; an absent
\* code gives "unknown_error", an absent message gives "Unknown error", an
\* absent details or request_id gives null (the X-Request-ID header is not
\* read); status_code is the status.
C6_FieldsEqualBodyOrDefault ==
  IsErrorObject =>
     /\ last.raised
     /\ last.error.message =
          (IF "message" \in DOMAIN LastBody.fields
           THEN LastBody.fields["message"] ELSE PyStr("Unknown error"))
     /\ last.error.code =
          (IF "code" \in DOMAIN LastBody.fields
           THEN LastBody.fields["code"] ELSE PyStr("unknown_error"))
     /\ last.error.details = C6BodyField("details")
     /\ last.error.request_id = C6BodyField("request_id")
     /\ last.error.status_code = PyInt(LastStatus)

C6_Witness ==
  /\ IsErrorObject
  /\ LastStatus = 402
  /\ DOMAIN LastBody.fields = {"message", "details"}
  /\ "X-Request-ID" \in DOMAIN LastHeaders
  /\ last.error.kind = "PaymentRequiredError"
  /\ last.error.code = PyStr("unknown_error")
  /\ last.error.message = PyStr("Image too large")
  /\ last.error.request_id = None
  /\ last.error.status_code = PyInt(402)

\* C7: with a body that is no JSON object (plain text, empty, JSON of
\* another type) the call raises the error kind of the table with code
\* "unknown_error", message the raw body text or "HTTP {status}" when the
\* body is empty, details null and request_id the X-Request-ID header or
\* null.
C7_FallbackError ==
  (GotResponse /\ LastStatus # 200 /\ LastBody.kind # "json_object") =>
     /\ last.raised
     /\ last.error.kind = TableKind(LastStatus)
     /\ last.error.code = PyStr("unknown_error")
     /\ last.error.message =
          (IF LastBody.text = "" THEN PyStr("HTTP " \o ToString(LastStatus))
           ELSE PyStr(LastBody.text))
     /\ last.error.details = None
     /\ last.error.request_id =
          (IF "X-Request-ID" \in DOMAIN LastHeaders
           THEN LastHeaders["X-Request-ID"] ELSE None)
     /\ last.error.status_code = PyInt(LastStatus)

C7_Witness ==
  /\ GotResponse
  /\ LastStatus = 502
  /\ LastBody.kind = "text"
  /\ LastBody.text = ""
  /\ last.raised
  /\ last.error.kind = "ServerError"
  /\ last.error.message = PyStr("HTTP 502")
  /\ last.error.code = PyStr("unknown_error")
  /\ last.error.request_id = PyStr("req_hdr")

\* the form fields of the request sent by the last call
SentForm ==
  IF last.request.data = None THEN [n \in {} |-> ""]
  ELSE last.request.data.form

\* C8: the form fields sent are exactly the options that are set; an unset
\* option is not sent, crop is sent as "true" or "false", every other
\* option as its string value; the file part is sent under the fixed name.
C8_FormFields ==
  (last.op = "remove_background" /\ last.resolved) =>
     /\ DOMAIN SentForm = {n \in OptionNames : last.options[n] # None}
     /\ \A n \in DOMAIN SentForm :
          SentForm[n] = (IF n = "crop"
                         THEN (IF last.options[n].bool THEN "true" ELSE "false")
                         ELSE last.options[n].str)
     /\ DOMAIN last.request.files = {"image_file"}

C8_Witness ==
  /\ last.op = "remove_background"
  /\ last.resolved
  /\ last.options["crop"] = PyBool(TRUE)
  /\ last.options["format"] = PyStr("webp")
  /\ last.options["size"] = None
  /\ SentForm = [n \in {"crop", "format"} |->
                   IF n = "crop" THEN "true" ELSE "webp"]

SentFile == last.request.files["image_file"]

\* C9 as claimed: resolving an image leaves the file on disk, the caller's
\* buffer and the caller's stream (content and read position) as they
\* were, and the content-type is never null.
C9_StorageUntouched ==
  [][last'.op = "remove_background" =>
       /\ disk' = disk
       /\ buffer' = buffer
       /\ stream' = stream
       /\ last'.resolved => last'.request.files["image_file"].content_type # None
    ]_vars

\* C9 as amended: resolving an image leaves the file on disk, the caller's
\* buffer and the content and name of the caller's stream as they were; a
\* stream input is read to its end, so its read position is its length
\* afterwards; the content-type is never null and is the generic binary
\* type when the type of the file name is unknown.
C9_StorageUntouchedButStreamRead ==
  [][last'.op = "remove_background" =>
       /\ disk' = disk
       /\ buffer' = buffer
       /\ stream'.content = stream.content
       /\ stream'.name = stream.name
       /\ stream'.pos = (IF last'.image.kind = "stream"
                         THEN Len(stream.content) ELSE stream.pos)
       /\ last'.resolved =>
            /\ last'.request.files["image_file"].content_type # None
            /\ last'.request.files["image_file"].filename.ext
                  \notin {"png", "PNG", "jpg", "jpeg", "webp"}
               => last'.request.files["image_file"].content_type
                    = PyStr("application/octet-stream")
    ]_vars

C9_Witness ==
  /\ last.op = "remove_background"
  /\ last.resolved
  /\ last.image.kind = "stream"
  /\ SentFile.data = <<1>>
  /\ stream.content = <<1>>
  /\ stream.pos = 1
  /\ SentFile.content_type = PyStr("application/octet-stream")

\* C10: two image inputs of different variants with the same bytes and the
\* same resolved file name give the same file part: the part sent by the
\* last call equals the part any input of another variant resolves to
\* whenever their bytes and file names agree.
C10_SameFilePart ==
  (last.op = "remove_background" /\ last.resolved) =>
     \A i \in AllImages :
        LET p == PrepareImage(i, disk, buffer, stream) IN
        (/\ i.kind # last.image.kind
         /\ ~p.raised
         /\ p.data = SentFile.data
         /\ p.filename = SentFile.filename)
        => p.content_type = SentFile.content_type

C10_Witness ==
  /\ last.op = "remove_background"
  /\ last.resolved
  /\ last.image.kind = "path"
  /\ SentFile.filename = F("image", "")
  /\ SentFile.data = <<1>>
  /\ buffer = <<1>>
  /\ PrepareImage(BytesImage, disk, buffer, stream).filename = SentFile.filename
  /\ PrepareImage(BytesImage, disk, buffer, stream).content_type
       = SentFile.content_type

====
